---- MODULE Spec2Model ----
(***************************************************************************)
(* Model of src/main.py: the filename sanitizer, the format selection of   *)
(* /extract-url and /gladia-url, and the temp-file lifecycle of /download. *)
(* Strings are sequences of one-character tokens.                          *)
(***************************************************************************)
EXTENDS Integers, Sequences, FiniteSets, TLC

VARIABLES
    \* sanitize_filename: the title, its sanitized form, that form sanitized again
    sIn, sOut, sOut2, sPc,
    \* /extract-url and /gladia-url: info['formats'], the format parameter,
    \* the endpoint served, the response
    eFormats, eHint, eEndpoint, eResp,
    \* /download: the filesystem
    tmpExists, tmp, cwd,
    \* /download: each request's position, uid, actual_file_path, response
    \* status, failed stage, the generator iterfile(), the outcome of
    \* os.unlink, the error detail's listing
    pc, uid, path, status, fail, gen, unlinked, listing,
    \* /download: the names the library wrote for each request, and the
    \* names each request's os.unlink removed
    made, deleted

sanVars == <<sIn, sOut, sOut2, sPc>>

extVars == <<eFormats, eHint, eEndpoint, eResp>>

fsVars == <<tmpExists, tmp, cwd>>

reqVars == <<pc, uid, path, status, fail, gen, unlinked, listing, made, deleted>>

dlVars == <<fsVars, reqVars>>

vars == <<sanVars, extVars, dlVars>>

----------------------------------------------------------------------------
(* sanitize_filename, src/main.py:16-34 *)

\* longest prefix / suffix literal drawn around the filler of a title
MaxAffix == 2

\* len(filename) > 200, filename[:200]
LengthLimit == 200

\* the character class of re.sub(r'[<>:"/\\|?*]', ...)
UnsafeChars == {"<", ">", ":", "\"", "/", "\\", "|", "?", "*"}

\* members of the class [\x00-\x1f\x7f-\x9f] that the titles below draw on
ControlChars == {"\t", "\n", "\r", "\f"}

\* the argument of filename.strip(' .')
StripChars == {" ", "."}

\* the characters titles are built from
Alphabet == {"a", " ", ".", "/", "\t"}

ReplaceUnsafe(s) == [i \in 1..Len(s) |-> IF s[i] \in UnsafeChars THEN "-" ELSE s[i]]

IsKept(c) == c \notin ControlChars

RemoveControl(s) == SelectSeq(s, IsKept)

\* str.strip(chars): drop the leading and the trailing run of chars
Strip(s) ==
    LET keep == {i \in 1..Len(s) : s[i] \notin StripChars}
    IN  IF keep = {} THEN <<>>
        ELSE LET lo == CHOOSE i \in keep : \A j \in keep : i <= j
                 hi == CHOOSE i \in keep : \A j \in keep : j <= i
             IN  SubSeq(s, lo, hi)

Fallback(s) == IF s = <<>> THEN <<"v", "i", "d", "e", "o">> ELSE s

Truncate(s) == IF Len(s) > LengthLimit THEN SubSeq(s, 1, LengthLimit) ELSE s

sanitize_filename(s) == Truncate(Fallback(Strip(RemoveControl(ReplaceUnsafe(s)))))

\* titles: a short literal, a run of "a", a short literal
Affixes == UNION {[1..n -> Alphabet] : n \in 0..MaxAffix}

Fill(n) == [i \in 1..n |-> "a"]

FillLens == {0, LengthLimit - MaxAffix, LengthLimit - 1, LengthLimit}

Titles == {h \o Fill(n) \o t : h \in Affixes, t \in Affixes, n \in FillLens}

SanInit ==
    /\ sIn \in Titles
    /\ sOut = <<>>
    /\ sOut2 = <<>>
    /\ sPc = "start"

\* title = sanitize_filename(title)
Sanitize ==
    /\ sPc = "start"
    /\ sOut' = sanitize_filename(sIn)
    /\ sPc' = "once"
    /\ UNCHANGED <<sIn, sOut2>>
    /\ UNCHANGED <<extVars, dlVars>>

\* the result used as a title again
SanitizeAgain ==
    /\ sPc = "once"
    /\ sOut2' = sanitize_filename(sOut)
    /\ sPc' = "twice"
    /\ UNCHANGED <<sIn, sOut>>
    /\ UNCHANGED <<extVars, dlVars>>

SanNext == Sanitize \/ SanitizeAgain

----------------------------------------------------------------------------
(* /extract-url and /gladia-url, src/main.py:44-208 *)

\* longest list of formats the metadata carries
MaxFormats == 2

\* a value of f.get('height'): the key missing, the value None, or an integer
AbsentHeight == [tag |-> "absent", v |-> 0]

NoneHeight == [tag |-> "None", v |-> 0]

IntHeight(n) == [tag |-> "int", v |-> n]

HeightValues == {AbsentHeight, NoneHeight, IntHeight(360), IntHeight(720)}

\* a direct URL as a sequence of substrings; <<>> is a missing or empty url
Urls == {<<>>, <<"https://cdn/v">>, <<"https://cdn/v", "?", "token=", "x">>}

FormatIds == {<<"1", "8">>, <<"h", "d">>}

\* vcodec / acodec: 'none' or the name of a codec
FormatPool ==
    [format_id : FormatIds, height : HeightValues,
     vcodec : {"none", "avc1"}, acodec : {"none", "mp4a"}, url : Urls]

FormatLists == UNION {[1..n -> FormatPool] : n \in 0..MaxFormats}

\* the format query parameter
Hints == {<<"b", "e", "s", "t">>, <<"1", "8">>, <<"h", "d">>,
          <<"7", "2", "0", "p">>, <<"7", "2", "0">>}

BestHint == <<"b", "e", "s", "t">>

Digits == {"0", "1", "2", "3", "4", "5", "6", "7", "8", "9"}

DigitVal(c) ==
    CASE c = "0" -> 0 [] c = "1" -> 1 [] c = "2" -> 2 [] c = "3" -> 3 [] c = "4" -> 4
      [] c = "5" -> 5 [] c = "6" -> 6 [] c = "7" -> 7 [] c = "8" -> 8 [] c = "9" -> 9

IsNotP(c) == c # "p"

\* format.replace('p', '')
RemoveP(s) == SelectSeq(s, IsNotP)

RECURSIVE DecimalValue(_)
DecimalValue(s) ==
    IF s = <<>> THEN 0
    ELSE DecimalValue(SubSeq(s, 1, Len(s) - 1)) * 10 + DigitVal(s[Len(s)])

\* int(s) of a string of letters and digits: its value, or ValueError
ParseInt(s) ==
    IF s # <<>> /\ \A i \in 1..Len(s) : s[i] \in Digits
    THEN [ok |-> TRUE, v |-> DecimalValue(s)]
    ELSE [ok |-> FALSE, v |-> 0]

\* f.get('height', 0)
HeightOr0(f) == IF f.height.tag = "absent" THEN IntHeight(0) ELSE f.height

HasBoth(f) == f.vcodec # "none" /\ f.acodec # "none"

HasAudio(f) == f.acodec # "none"

\* f.get('height', 0) > best_format.get('height', 0): None on either side
\* raises TypeError
Higher(f, g) ==
    LET a == HeightOr0(f)
        b == HeightOr0(g)
    IN  IF a.tag = "None" \/ b.tag = "None" THEN "TypeError"
        ELSE IF a.v > b.v THEN "yes" ELSE "no"

\* the loop of lines 67-70: best is an index into fs, 0 for None
RECURSIVE BestWithBoth(_, _, _)
BestWithBoth(fs, i, best) ==
    IF i > Len(fs) THEN [exc |-> "none", best |-> best]
    ELSE IF ~HasBoth(fs[i]) THEN BestWithBoth(fs, i + 1, best)
    ELSE IF best = 0 THEN BestWithBoth(fs, i + 1, i)
    ELSE LET h == Higher(fs[i], fs[best])
         IN  IF h = "TypeError" THEN [exc |-> "TypeError", best |-> 0]
             ELSE BestWithBoth(fs, i + 1, IF h = "yes" THEN i ELSE best)

\* the loop of lines 144-147
RECURSIVE BestWithAudio(_, _, _)
BestWithAudio(fs, i, best) ==
    IF i > Len(fs) THEN [exc |-> "none", best |-> best]
    ELSE IF ~HasAudio(fs[i]) THEN BestWithAudio(fs, i + 1, best)
    ELSE IF best = 0 THEN BestWithAudio(fs, i + 1, i)
    ELSE LET h == Higher(fs[i], fs[best])
         IN  IF h = "TypeError" THEN [exc |-> "TypeError", best |-> 0]
             ELSE BestWithAudio(fs, i + 1, IF h = "yes" THEN i ELSE best)

\* the loop of lines 73-76
FirstWithAudio(fs) ==
    IF \E i \in 1..Len(fs) : HasAudio(fs[i])
    THEN CHOOSE i \in 1..Len(fs) : HasAudio(fs[i]) /\ \A j \in 1..(i - 1) : ~HasAudio(fs[j])
    ELSE 0

\* lines 64-76
SelectBest(fs) ==
    LET r == BestWithBoth(fs, 1, 0)
    IN  IF r.exc # "none" THEN r
        ELSE IF r.best # 0 THEN r
        ELSE [exc |-> "none", best |-> FirstWithAudio(fs)]

\* the loop of lines 80-83: int() is evaluated for each format whose
\* format_id differs from the hint
RECURSIVE FindSpecific(_, _, _)
FindSpecific(fs, h, i) ==
    IF i > Len(fs) THEN [exc |-> "none", best |-> 0]
    ELSE IF fs[i].format_id = h THEN [exc |-> "none", best |-> i]
    ELSE LET n == ParseInt(RemoveP(h))
         IN  IF ~n.ok THEN [exc |-> "ValueError", best |-> 0]
             ELSE IF fs[i].height.tag = "int" /\ fs[i].height.v = n.v
                  THEN [exc |-> "none", best |-> i]
             ELSE FindSpecific(fs, h, i + 1)

\* lines 77-85
SelectSpecific(fs, h) ==
    LET r == FindSpecific(fs, h, 1)
    IN  IF r.exc # "none" THEN r
        ELSE IF r.best # 0 THEN r
        ELSE [exc |-> "none", best |-> 1]

\* an exception leaving the try block; picked is best_format at that point,
\* an index into the formats, 0 for None
Raised(exc, code, picked) ==
    [exc |-> exc, status |-> code, picked |-> picked, title |-> <<>>]

\* the try block of extract_media_url, lines 51-113
ExtractBody(infoOk, fs, h, title) ==
    IF ~infoOk THEN Raised("DownloadError", 0, 0)
    ELSE IF fs = <<>> THEN Raised("HTTPException", 400, 0)
    ELSE LET r == IF h = BestHint THEN SelectBest(fs) ELSE SelectSpecific(fs, h)
         IN  IF r.exc # "none" THEN Raised(r.exc, 0, 0)
             ELSE IF r.best = 0 THEN Raised("HTTPException", 400, 0)
             ELSE IF fs[r.best].url = <<>> THEN Raised("HTTPException", 400, r.best)
             ELSE [exc |-> "none", status |-> 200, picked |-> r.best,
                   title |-> sanitize_filename(title)]

\* the try block of get_gladia_url up to the direct URL, lines 130-155
GladiaBody(infoOk, fs) ==
    IF ~infoOk THEN Raised("DownloadError", 0, 0)
    ELSE IF fs = <<>> THEN Raised("HTTPException", 400, 0)
    ELSE LET r == BestWithAudio(fs, 1, 0)
         IN  IF r.exc # "none" THEN Raised(r.exc, 0, 0)
             ELSE IF r.best = 0 THEN Raised("HTTPException", 400, 0)
             ELSE IF fs[r.best].url = <<>> THEN Raised("HTTPException", 400, r.best)
             ELSE [exc |-> "none", status |-> 200, picked |-> r.best, title |-> <<"t">>]

\* except Exception as e: raise HTTPException(status_code=500, ...),
\* lines 115-121 and 202-208; HTTPException is an Exception
Respond(r) ==
    IF r.exc = "none" THEN [status |-> 200, sel |-> r.picked, title |-> r.title, body |-> r]
    ELSE [status |-> 500, sel |-> 0, title |-> <<>>, body |-> r]

Contains(s, tok) == \E i \in 1..Len(s) : s[i] = tok

\* lines 158-162
Warning(url) ==
    Contains(url, "?") /\ (Contains(url, "signature=") \/ Contains(url, "token="))

\* if duration_minutes > 135
DurationLimitMinutes == 135

\* if file_size_mb > 1000
SizeLimitMB == 1000

\* lines 170-182, with duration / 60 and file_size / (1024 * 1024) multiplied out
Compatible(duration, size) ==
    /\ ~(duration > DurationLimitMinutes * 60)
    /\ ~(size > SizeLimitMB * 1024 * 1024)

Durations == {0, 134 * 60, 136 * 60}

Sizes == {0, 500 * 1024 * 1024, 1000 * 1024 * 1024 + 1}

ShortTitles == {<<"a">>, <<".", "/">>}

ExtInit ==
    /\ eFormats \in FormatLists
    /\ eHint \in Hints
    /\ eEndpoint = "none"
    /\ eResp = [status |-> 0]

\* GET /extract-url: the metadata is fetched (infoOk: extract_info returns)
ExtractUrl ==
    /\ eEndpoint = "none"
    /\ \E infoOk \in BOOLEAN, title \in ShortTitles :
          eResp' = Respond(ExtractBody(infoOk, eFormats, eHint, title))
    /\ eEndpoint' = "extract-url"
    /\ UNCHANGED <<eFormats, eHint>>
    /\ UNCHANGED <<sanVars, dlVars>>

\* GET /gladia-url
GladiaUrl ==
    /\ eEndpoint = "none"
    /\ \E infoOk \in BOOLEAN, duration \in Durations, size \in Sizes :
          LET r == Respond(GladiaBody(infoOk, eFormats))
          IN  eResp' =
                IF r.status # 200 THEN r
                ELSE r @@
                     [warning |-> Warning(eFormats[r.sel].url),
                      gladia_compatible |-> Compatible(duration, size),
                      duration |-> duration, size |-> size]
    /\ eEndpoint' = "gladia-url"
    /\ UNCHANGED <<eFormats, eHint>>
    /\ UNCHANGED <<sanVars, dlVars>>

ExtNext == ExtractUrl \/ GladiaUrl

----------------------------------------------------------------------------
(* /download, src/main.py:210-306 *)

\* requests served concurrently
NumReqs == 2

Reqs == 1..NumReqs

\* uuid.uuid4().hex[:8]
UidLen == 8

\* how many of the hex digits the uids of the model draw on
UidDigits == 2

HexDigits == <<"0", "1", "2", "3", "4", "5", "6", "7",
               "8", "9", "a", "b", "c", "d", "e", "f">>

ZeroUid == [i \in 1..UidLen |-> "0"]

\* uids that differ in their last character only
UidPool == {[ZeroUid EXCEPT ![UidLen] = HexDigits[k]] : k \in 1..UidDigits}

NoUid == <<>>

\* what the output template /tmp/<uid>.%(ext)s names: the file being
\* downloaded, and the finished file it is renamed to
PartName(u) == u \o <<".mp4", ".part">>

FinalName(u) == u \o <<".mp4">>

\* entries of the scratch directory that no request of the model wrote:
\* a name shorter than a uid, a name holding a uid after its first character,
\* and names of other programs
UnrelatedName(k) ==
    IF k = 1 THEN <<"0", "0">>
    ELSE IF k = 2 THEN <<"x">> \o ZeroUid \o <<".mp4">>
    ELSE <<"x">> \o [i \in 1..k |-> "y"]

Unrelated(n) == {UnrelatedName(k) : k \in 1..n}

\* entries of the scratch directory in the single-request specification
MaxUnrelated == 11

\* available_files[:10]
ListingLimit == 10

NoPath == [dir |-> "none", name |-> <<>>]

\* f.startswith(uid[0]) in place of f.startswith(uid)
StartsWithFirstChar(f, u) == Len(f) >= 1 /\ f[1] = u[1]

\* f.startswith(uid)
StartsWith(f, u) == Len(f) >= Len(u) /\ SubSeq(f, 1, Len(u)) = u

\* lines 249-252 and 255-258: the entry the loop stops at is the first one,
\* in the order of os.listdir, that starts with the uid; os.listdir lists a
\* directory (a set of names) in arbitrary order, so that any entry starting
\* with the uid can be the one
Matches(entries, u) == {f \in entries : StartsWith(f, u)}

\* lines 247-258: the paths actual_file_path can become; os.listdir("/tmp")
\* raises FileNotFoundError when /tmp is missing, and "." is scanned instead
FindFile(exists, t, c, u) ==
    IF exists THEN {[dir |-> "tmp", name |-> f] : f \in Matches(t, u)}
    ELSE {[dir |-> "cwd", name |-> f] : f \in Matches(c, u)}

\* os.path.exists(actual_file_path)
Exists(exists, t, c, p) ==
    \/ p.dir = "tmp" /\ exists /\ p.name \in t
    \/ p.dir = "cwd" /\ p.name \in c

\* available_files in place of available_files[:10]
AvailableFilesUncut(exists, t, c) == {IF exists THEN t ELSE c}

\* lines 262-265 and available_files[:10] of line 268: the listings the
\* error detail can hold, the first 10 entries in the order of os.listdir
AvailableFiles(exists, t, c) ==
    LET d == IF exists THEN t ELSE c
        n == IF Cardinality(d) < ListingLimit THEN Cardinality(d) ELSE ListingLimit
    IN  {l \in SUBSET d : Cardinality(l) = n}

InitialDirs(maxUnrelated, stale) ==
    {Unrelated(n) \cup s : n \in 0..maxUnrelated, s \in stale}

\* leftovers of earlier requests in the scratch directory
Leftovers == {{}} \cup {{PartName(u)} : u \in UidPool}

ReqInit(first) ==
    /\ pc = [r \in Reqs |-> IF r <= first THEN "idle" ELSE "off"]
    /\ uid = [r \in Reqs |-> NoUid]
    /\ path = [r \in Reqs |-> NoPath]
    /\ status = [r \in Reqs |-> 0]
    /\ fail = [r \in Reqs |-> "none"]
    /\ gen = [r \in Reqs |-> "none"]
    /\ unlinked = [r \in Reqs |-> "no"]
    /\ listing = [r \in Reqs |-> {}]
    /\ made = [r \in Reqs |-> {}]
    /\ deleted = [r \in Reqs |-> {}]

\* the filesystem when the requests arrive: /tmp may be missing
FsInit(maxUnrelated, stale, cwds) ==
    /\ tmpExists \in BOOLEAN
    /\ tmp \in IF tmpExists THEN InitialDirs(maxUnrelated, stale) ELSE {{}}
    /\ cwd \in cwds

\* its response produced, request r is over
Failed(r, stage) ==
    /\ pc' = [pc EXCEPT ![r] = "done"]
    /\ status' = [status EXCEPT ![r] = 500]
    /\ fail' = [fail EXCEPT ![r] = stage]

\* lines 213-227: the metadata is extracted (a failure is answered by the
\* handler of lines 296-306), the title sanitized, the uid drawn
Start(r) ==
    /\ pc[r] = "idle"
    /\ \E ok \in BOOLEAN :
          IF ok
          THEN /\ \E u \in UidPool : uid' = [uid EXCEPT ![r] = u]
               /\ pc' = [pc EXCEPT ![r] = "downloading"]
               /\ UNCHANGED <<status, fail>>
          ELSE Failed(r, "metadata") /\ UNCHANGED uid
    /\ UNCHANGED <<fsVars, path, gen, unlinked, listing, made, deleted>>
    /\ UNCHANGED <<sanVars, extVars>>

\* line 244, inside ydl.download: the library starts writing
\* /tmp/<uid>.mp4.part, creating /tmp when it is missing
LibWrite(r) ==
    /\ pc[r] = "downloading"
    /\ made[r] = {}
    /\ made' = [made EXCEPT ![r] = {PartName(uid[r])}]
    /\ tmp' = tmp \cup {PartName(uid[r])}
    /\ tmpExists' = TRUE
    /\ UNCHANGED <<cwd, pc, uid, path, status, fail, gen, unlinked, listing, deleted>>
    /\ UNCHANGED <<sanVars, extVars>>

\* line 244, inside ydl.download: the finished download is renamed to
\* /tmp/<uid>.mp4
LibRename(r) ==
    /\ pc[r] = "downloading"
    /\ made[r] = {PartName(uid[r])}
    /\ PartName(uid[r]) \in tmp
    /\ made' = [made EXCEPT ![r] = @ \cup {FinalName(uid[r])}]
    /\ tmp' = (tmp \ {PartName(uid[r])}) \cup {FinalName(uid[r])}
    /\ UNCHANGED <<tmpExists, cwd, pc, uid, path, status, fail, gen, unlinked, listing, deleted>>
    /\ UNCHANGED <<sanVars, extVars>>

\* line 244: ydl.download returns
LibReturn(r) ==
    /\ pc[r] = "downloading"
    /\ pc' = [pc EXCEPT ![r] = "downloaded"]
    /\ UNCHANGED <<fsVars, uid, path, status, fail, gen, unlinked, listing, made, deleted>>
    /\ UNCHANGED <<sanVars, extVars>>

\* line 244: ydl.download raises; lines 296-306 answer 500
LibRaise(r) ==
    /\ pc[r] = "downloading"
    /\ Failed(r, "download")
    /\ UNCHANGED <<fsVars, uid, path, gen, unlinked, listing, made, deleted>>
    /\ UNCHANGED <<sanVars, extVars>>

\* lines 246-294: the file is looked up; when it is found the generator
\* iterfile() is created (its body not yet run), the header encoded
\* (filename.encode('utf-8') raises on a title with a lone surrogate) and
\* the StreamingResponse, of status 200, returned
Resolve(r) ==
    /\ pc[r] = "downloaded"
    /\ \E p \in IF FindFile(tmpExists, tmp, cwd, uid[r]) = {} THEN {NoPath}
                 ELSE FindFile(tmpExists, tmp, cwd, uid[r]) :
           /\ path' = [path EXCEPT ![r] = p]
           /\ IF p = NoPath \/ ~Exists(tmpExists, tmp, cwd, p)
              THEN /\ Failed(r, "notfound")
                   /\ \E l \in AvailableFiles(tmpExists, tmp, cwd) :
                         listing' = [listing EXCEPT ![r] = l]
                   /\ UNCHANGED gen
              ELSE \E encodable \in BOOLEAN :
                      IF encodable
                      THEN /\ gen' = [gen EXCEPT ![r] = "created"]
                           /\ status' = [status EXCEPT ![r] = 200]
                           /\ pc' = [pc EXCEPT ![r] = "streaming"]
                           /\ UNCHANGED <<fail, listing>>
                      ELSE Failed(r, "header") /\ UNCHANGED <<gen, listing>>
    /\ UNCHANGED <<fsVars, uid, unlinked, made, deleted>>
    /\ UNCHANGED <<sanVars, extVars>>

\* lines 278-283: os.unlink(actual_file_path), its failure ignored; it fails
\* on a file that is gone, and when unlinks is false
Finally(r, unlinks) ==
    LET p == path[r]
        there == Exists(tmpExists, tmp, cwd, p)
        t == IF unlinks /\ p.dir = "tmp" THEN tmp \ {p.name} ELSE tmp
        c == IF unlinks /\ p.dir = "cwd" THEN cwd \ {p.name} ELSE cwd
    IN  /\ tmp' = t
        /\ cwd' = c
        /\ unlinked' = [unlinked EXCEPT ![r] = IF unlinks /\ there THEN "ok" ELSE "error"]
        /\ deleted' = [deleted EXCEPT ![r] = @ \cup (tmp \ t) \cup (cwd \ c)]
        /\ gen' = [gen EXCEPT ![r] = "closed"]
        /\ pc' = [pc EXCEPT ![r] = "done"]
        /\ UNCHANGED tmpExists

\* the first next() on the generator, lines 273-275: open() raises when the
\* file is gone or when opens is false; an empty file ends the generator, any
\* other yields its first line
FirstChunk(r) ==
    /\ pc[r] = "streaming" /\ gen[r] = "created"
    /\ \E opens \in BOOLEAN, empty \in BOOLEAN, unlinks \in BOOLEAN :
          LET gone == ~Exists(tmpExists, tmp, cwd, path[r])
              raises == ~opens \/ gone
          IN  /\ gone => opens
              /\ IF raises \/ empty
                 THEN /\ Finally(r, unlinks)
                      /\ fail' = [fail EXCEPT ![r] = IF raises THEN "read" ELSE @]
                 ELSE /\ unlinks
                      /\ gen' = [gen EXCEPT ![r] = "suspended"]
                      /\ UNCHANGED <<fsVars, pc, fail, unlinked, deleted>>
    /\ UNCHANGED <<uid, path, status, listing, made>>
    /\ UNCHANGED <<sanVars, extVars>>

\* a later next(): the next line, the generator suspended again
NextChunk(r) ==
    /\ pc[r] = "streaming" /\ gen[r] = "suspended"
    /\ UNCHANGED vars

\* a later next() at the end of the file: the generator ends through its
\* finally block
LastChunk(r) ==
    /\ pc[r] = "streaming" /\ gen[r] = "suspended"
    /\ \E unlinks \in BOOLEAN : Finally(r, unlinks)
    /\ UNCHANGED <<uid, path, status, fail, listing, made>>
    /\ UNCHANGED <<sanVars, extVars>>

\* lines 276-277: reading raises; HTTPException(500) is raised inside the
\* generator, after the response of status 200 was returned
ReadError(r) ==
    /\ pc[r] = "streaming" /\ gen[r] = "suspended"
    /\ \E unlinks \in BOOLEAN : Finally(r, unlinks)
    /\ fail' = [fail EXCEPT ![r] = "read"]
    /\ UNCHANGED <<uid, path, status, listing, made>>
    /\ UNCHANGED <<sanVars, extVars>>

\* the client disconnects: a suspended generator is closed (GeneratorExit at
\* the yield runs the finally block); a generator whose body never started
\* is dropped without running any of it
Disconnect(r) ==
    /\ pc[r] = "streaming"
    /\ IF gen[r] = "suspended"
       THEN \E unlinks \in BOOLEAN : Finally(r, unlinks)
       ELSE /\ gen' = [gen EXCEPT ![r] = "dropped"]
            /\ pc' = [pc EXCEPT ![r] = "done"]
            /\ UNCHANGED <<fsVars, unlinked, deleted>>
    /\ UNCHANGED <<uid, path, status, fail, listing, made>>
    /\ UNCHANGED <<sanVars, extVars>>

Handle(r) ==
    \/ Start(r)
    \/ LibWrite(r)
    \/ LibRename(r)
    \/ LibReturn(r)
    \/ LibRaise(r)
    \/ Resolve(r)
    \/ FirstChunk(r)
    \/ NextChunk(r)
    \/ LastChunk(r)
    \/ ReadError(r)
    \/ Disconnect(r)

----------------------------------------------------------------------------
(* specifications *)

SanIdle == sIn = <<>> /\ sOut = <<>> /\ sOut2 = <<>> /\ sPc = "idle"

ExtIdle == eFormats = <<>> /\ eHint = BestHint /\ eEndpoint = "idle" /\ eResp = [status |-> 0]

DlIdle == ReqInit(0) /\ tmpExists = TRUE /\ tmp = {} /\ cwd = {}

\* sanitize_filename applied to a title, and to its own result
SanitizeInit == SanInit /\ ExtIdle /\ DlIdle

SpecSanitize == SanitizeInit /\ [][SanNext]_vars

\* one request to /extract-url or to /gladia-url
ExtractInit == ExtInit /\ SanIdle /\ DlIdle

SpecExtract == ExtractInit /\ [][ExtNext]_vars

\* the requests share a /tmp that holds entries of other programs
Init ==
    /\ ReqInit(NumReqs)
    /\ tmpExists = TRUE
    /\ tmp = {UnrelatedName(1), UnrelatedName(2)}
    /\ cwd = {}
    /\ SanIdle /\ ExtIdle

Next == \E r \in Reqs : Handle(r)

\* /download requests served concurrently over one scratch directory
Spec == Init /\ [][Next]_vars

ResolveInit ==
    /\ ReqInit(1)
    /\ FsInit(MaxUnrelated, Leftovers, {{}, {FinalName(ZeroUid)}})
    /\ SanIdle /\ ExtIdle

\* one /download request over every scratch directory
ResolveNext == Handle(1)

SpecResolve == ResolveInit /\ [][ResolveNext]_vars

----------------------------------------------------------------------------
(* claims *)

\* u is a prefix of f
HasPrefix(f, u) == \E k \in 0..Len(f) : SubSeq(f, 1, k) = u

Served(r) == pc[r] = "done" /\ status[r] = 200

\* C1: a request that reached the streaming step with a resolved file has,
\* once its stream has ended in whatever way, had its file unlinked (the
\* unlink itself may have failed, which is ignored).
C1_StreamedFileDeleted ==
    \A r \in Reqs :
        Served(r) =>
            /\ unlinked[r] # "no"
            /\ unlinked[r] = "ok" => path[r].name \in deleted[r]

\* C2: when a request that has drawn its uid is answered with an error, no
\* entry of the scratch directory starts with that uid.
C2_NoEntryAfterFailure ==
    [][\A r \in Reqs :
          (pc[r] # "done" /\ pc'[r] = "done" /\ status'[r] = 500 /\ uid'[r] # NoUid)
              => \A f \in tmp' : ~HasPrefix(f, uid'[r])]_vars

\* C3: of two requests with different uids, neither resolves to nor deletes
\* an entry the library wrote for the other.
C3_OwnFileOnly ==
    \A r \in Reqs, q \in Reqs :
        (r # q /\ uid[r] # NoUid /\ uid[q] # NoUid /\ uid[r] # uid[q])
            => /\ path[r].name \notin made[q]
               /\ deleted[r] \cap made[q] = {}

\* two requests with different uids: one has streamed and deleted the file of
\* its own download while the other is streaming its own, still in /tmp
C3_Witness ==
    \E r \in Reqs, q \in Reqs :
        /\ r # q /\ uid[r] # NoUid /\ uid[q] # NoUid /\ uid[r] # uid[q]
        /\ deleted[r] # {} /\ deleted[r] \subseteq made[r]
        /\ gen[q] = "suspended" /\ path[q].name \in made[q] /\ path[q].name \in tmp

\* C4: a request that failed at any stage, reading the file while streaming
\* included, is answered with status 500.
C4_FailureAnswered500 == \A r \in Reqs : fail[r] # "none" => status[r] = 500

MetadataFetched == eEndpoint \in {"extract-url", "gladia-url"} /\ eResp.body.exc # "DownloadError"

NoAudioAtAll == \A i \in 1..Len(eFormats) : eFormats[i].acodec = "none"

\* C5: with the metadata fetched, /extract-url answers 400 when there are no
\* formats, no suitable format or no direct URL, and /gladia-url answers 400
\* when no format bears audio.
C5_PreconditionsAnswered400 ==
    MetadataFetched =>
        /\ eFormats = <<>> => eResp.status = 400
        /\ (eEndpoint = "gladia-url" /\ NoAudioAtAll) => eResp.status = 400
        /\ (eEndpoint = "extract-url" /\ eHint = BestHint /\ NoAudioAtAll) => eResp.status = 400
        /\ (eResp.body.picked # 0 /\ eFormats[eResp.body.picked].url = <<>>) => eResp.status = 400

\* the hint has the shape <number>p
NumberP(h) == Len(h) >= 2 /\ h[Len(h)] = "p" /\ \A i \in 1..(Len(h) - 1) : h[i] \in Digits

\* the formats a hint other than "best" matches: by format_id, or by height
\* when the hint has the shape <number>p
HintMatches(fs, h) ==
    {i \in 1..Len(fs) :
        \/ fs[i].format_id = h
        \/ NumberP(h) /\ fs[i].height = IntHeight(DecimalValue(SubSeq(h, 1, Len(h) - 1)))}

\* C6: /extract-url with a hint other than "best" over a non-empty list picks
\* a format the hint matches when there is one, and the first format when
\* there is none.
C6_HintNeverFails ==
    (eEndpoint = "extract-url" /\ MetadataFetched /\ eHint # BestHint /\ eFormats # <<>>) =>
        IF HintMatches(eFormats, eHint) # {}
        THEN eResp.body.picked \in HintMatches(eFormats, eHint)
        ELSE eResp.body.picked = 1

\* a format's height as a number, 0 when it has none
HeightNumber(f) == IF f.height.tag = "int" THEN f.height.v ELSE 0

\* C7: /extract-url with the hint "best": among the formats with both codecs
\* one of greatest height is picked; when there is none, the first format
\* with an audio codec; when there is none either, the selection fails.
C7_BestSelection ==
    (eEndpoint = "extract-url" /\ MetadataFetched /\ eHint = BestHint /\ eFormats # <<>>) =>
        LET both == {i \in 1..Len(eFormats) : HasBoth(eFormats[i])}
            audio == {i \in 1..Len(eFormats) : HasAudio(eFormats[i])}
            picked == eResp.body.picked
        IN  IF both # {}
            THEN /\ picked \in both
                 /\ \A j \in both : HeightNumber(eFormats[j]) <= HeightNumber(eFormats[picked])
            ELSE IF audio # {}
            THEN picked \in audio /\ \A j \in audio : picked <= j
            ELSE picked = 0 /\ eResp.status # 200

\* the directory the lookup of request r scans
Scanned == IF tmpExists THEN tmp ELSE cwd

\* C8, the lookup: when entries of the scanned directory start with the uid
\* the request resolves to one of them; when none does it fails with a
\* file-not-found error listing at most 10 entries of the directory, and
\* neither streams nor deletes
C8_Lookup(r) ==
    (pc[r] = "downloaded" /\ pc'[r] # "downloaded") =>
        LET m == {f \in Scanned : HasPrefix(f, uid[r])}
        IN  IF m # {}
            THEN path'[r].name \in m /\ fail'[r] # "notfound"
            ELSE /\ path'[r] = NoPath
                 /\ fail'[r] = "notfound" /\ status'[r] = 500
                 /\ listing'[r] \subseteq Scanned /\ Cardinality(listing'[r]) <= 10
                 /\ gen'[r] = "none" /\ UNCHANGED <<fsVars, deleted>>

C8_NotFoundIsFinal ==
    \A r \in Reqs :
        fail[r] = "notfound" =>
            pc[r] = "done" /\ gen[r] = "none" /\ unlinked[r] = "no" /\ deleted[r] = {}

\* C8: after the download step the request resolves to an entry that starts
\* with its uid whenever there is one, and otherwise fails with a
\* file-not-found error that lists at most 10 directory entries, nothing
\* being streamed or deleted.
C8_ResolvesByPrefix == [][\A r \in Reqs : C8_Lookup(r)]_vars /\ []C8_NotFoundIsFinal

\* the request streams the one entry that starts with its uid, found among
\* more than 10 entries of other origin
C8_Witness ==
    /\ gen[1] = "suspended"
    /\ path[1] = [dir |-> "tmp", name |-> FinalName(uid[1])]
    /\ Cardinality({f \in tmp : HasPrefix(f, uid[1])}) = 1
    /\ Cardinality({f \in tmp : ~HasPrefix(f, uid[1])}) > 10

\* C9: sanitize_filename(x) is non-empty, holds no unsafe and no control
\* character, neither starts nor ends with a space or a period, and has at
\* most 200 characters.
C9_SafeOutput ==
    sPc \in {"once", "twice"} =>
        /\ sOut # <<>>
        /\ \A i \in 1..Len(sOut) : sOut[i] \notin UnsafeChars /\ sOut[i] \notin ControlChars
        /\ sOut[1] \notin StripChars
        /\ sOut[Len(sOut)] \notin StripChars
        /\ Len(sOut) <= LengthLimit

\* C10: sanitize_filename(sanitize_filename(x)) = sanitize_filename(x).
C10_Idempotent == sPc = "twice" => sOut2 = sOut

====
